---- MODULE Spec2Model ----
(***************************************************************************)
(* Chronos job scheduler: the job store (PostgreSQL rows), the BullMQ      *)
(* dispatch queue, the Safety Sync of SchedulerService, the control        *)
(* surface of JobService and the worker-side lifecycle of ExecutionService *)
(* and JobWorker.                                                          *)
(*                                                                         *)
(* Time is counted in units of JOB_RETRY_DELAY (one minute).  A cron       *)
(* expression is stood for by its period P ("*/P * * * *").                *)
(* The dispatch queue is a set of BullMQ job records.  Every caller passes *)
(* the job's UUID as the BullMQ job id, and BullMQ ignores an add whose id *)
(* already names a record of the queue, in whatever state that record is.  *)
(* Finished records stay in the queue: removeOnComplete keeps the last 100 *)
(* for 24 h, removeOnFail the last 500 for 7 d, both far beyond the        *)
(* horizon of the model.                                                   *)
(***************************************************************************)
EXTENDS Integers, Sequences, FiniteSets, TLC

\* ------------------------------------------------------------------ bounds
JobIds == {"j1"}
SyncIds == {"s1", "s2"}
CronPeriods == {1, 2}
MaxTime == 3
MaxExecs == 3
MaxRetriesInputs == {0, 1}

\* ------------------------------------------------------- program constants
\* attempts of every dispatch: parseInt(process.env.JOB_MAX_RETRIES || '3')
JOB_MAX_RETRIES == 3
\* base of the exponential backoff, 60000 ms, the unit of time of the model
JOB_RETRY_DELAY == 1
\* max_retries || 3
DEFAULT_MAX_RETRIES == 3

\* timeout_seconds || 300 in createJob and Job.create
DEFAULT_TIMEOUT == 300
\* LIMIT 1000 of findMissedJobs
SYNC_LIMIT == 1000
\* attempts: 3 written into the notification of handleJobFailure
FAILURE_ATTEMPTS == 3

VARIABLES jobs, queue, executions, notifications, logicRunning, now, sync, upd, scheduler

vars == <<jobs, queue, executions, notifications, logicRunning, now, sync, upd, scheduler>>

\* ------------------------------------------------------------ pure helpers
Max(a, b) == IF a >= b THEN a ELSE b

Min(a, b) == IF a <= b THEN a ELSE b

RECURSIVE Pow2(_)
Pow2(n) == IF n <= 0 THEN 1 ELSE 2 * Pow2(n - 1)

\* an expression CronExpressionParser.parse throws on ('invalid cron')
InvalidCron == -1

\* every expression passes for valid
isValidCronExpression_Any(cronExpression) == TRUE

\* CronExpressionParser.parse(cronExpression) does not throw
isValidCronExpression(cronExpression) == cronExpression > 0

\* the expression is trimmed and parsed: {valid, normalized, error}
validateAndNormalize(cronExpression) ==
  [valid |-> cronExpression > 0,
   normalized |-> IF cronExpression > 0 THEN cronExpression ELSE 0]

\* cron-parser's interval.next(): the first firing strictly after currentDate
getNextRun(P, currentDate) == ((currentDate \div P) + 1) * P

\* Math.max(0, target - now)
calculateDelay(target, t) == Max(0, target - t)

\* the comparison left out: no date is ever in the past
isInPast_Never(date, t) == FALSE

\* new Date(date) < new Date()
isInPast(date, t) == date < t

\* ---------------------------------------------------------------- records
\* SQL NULL in a TIMESTAMP column; jobs.next_run is declared NOT NULL and no
\* statement of Job writes NULL to it; last_executed_at is NULL until the
\* first successful execution
NullTime == -1

NoJob ==
  [status |-> "none", job_type |-> "none", cron |-> 0, next_run |-> 0, max_retries |-> 0,
   last_executed_at |-> NullTime, retry_count |-> 0, timeout_seconds |-> 0]

IdleSync == [pc |-> "idle", missed |-> <<>>, i |-> 1]

\* the SchedulerService as constructed: isRunning false, syncInterval null
\* (0); timers are the interval timers alive in the process, starting the
\* Safety Sync runs that a start() call is awaiting
IdleScheduler == [isRunning |-> FALSE, syncInterval |-> 0, timers |-> {}, starting |-> {}]

\* no updateJob request in progress for the job
IdleUpd == [pc |-> "idle", updates |-> [cron_expression |-> 0, status |-> "-"], next_run |-> 0]

LiveStates == {"delayed", "waiting", "active"}

\* the accounts that send requests
Users == {"u1", "u2"}

\* jobs.user_id: written once by Job.create from the creating request and in
\* no allowedFields of Job.update, so fixed for the life of the row
user_id == [j \in JobIds |-> "u1"]

\* Job.findById in place of the owner-scoped lookup
findByIdAndUser_AnyUser(j, userId) == jobs[j]

\* Job.findByIdAndUser: SELECT * FROM jobs WHERE id = $1 AND user_id = $2,
\* null (NoJob) when no row matches; the status is not looked at
findByIdAndUser(j, userId) ==
  IF jobs[j].status # "none" /\ user_id[j] = userId THEN jobs[j] ELSE NoJob

\* ------------------------------------------------------- BullMQ job queue
ItemsOf(q, j) == {i \in q : i.jobId = j}

LiveItemsOf(q, j) == {i \in q : i.jobId = j /\ i.state \in LiveStates}

\* the records of the queue are told apart by a serial number
NextSeq(q) == IF q = {} THEN 1 ELSE 1 + CHOOSE n \in {i.seq : i \in q} : \A i \in q : i.seq <= n

\* a fresh record: delayed until now + delay, or waiting when delay is 0.
\* pc, execs, snapStatus and snapCron are the state of the processor once a
\* worker holds the record (execs: the execution rows written for it)
NewItem(q, j, delay, manual, t) ==
  [seq |-> NextSeq(q), jobId |-> j,
   state |-> IF delay > 0 THEN "delayed" ELSE "waiting",
   fireAt |-> t + delay, attemptsMade |-> 0, manual |-> manual,
   pc |-> "-", execs |-> <<>>, snapStatus |-> "none", snapCron |-> 0,
   timeout |-> IF jobs[j].status = "none" THEN DEFAULT_TIMEOUT ELSE jobs[j].timeout_seconds]

\* the add without a custom job id: BullMQ generates a fresh id, nothing is
\* ever a duplicate
addJobToQueue_NoJobId(q, j, delay, manual, t) == q \cup {NewItem(q, j, delay, manual, t)}

\* the add as it would be if finished records were not kept (removeOnComplete:
\* true): only a live record is a duplicate
addJobToQueue_LiveOnly(q, j, delay, manual, t) ==
  IF LiveItemsOf(q, j) # {} THEN q ELSE q \cup {NewItem(q, j, delay, manual, t)}

\* jobQueue.add('execute-job', jobData, {jobId: jobData.jobId, ...options}):
\* ignored when a record with that id exists
addJobToQueue(q, j, delay, manual, t) ==
  IF ItemsOf(q, j) # {} THEN q ELSE q \cup {NewItem(q, j, delay, manual, t)}

\* jobQueue.getJob(jobId) then job.remove(): an active (locked) record cannot
\* be removed, the error is caught and false returned
removeJobFromQueue(q, j) == {i \in q : ~(i.jobId = j /\ i.state # "active")}

\* ------------------------------------------------------------------- Init
Init ==
  /\ jobs = [j \in JobIds |-> NoJob]
  /\ queue = {}
  /\ executions = <<>>
  /\ notifications = <<>>
  /\ logicRunning = {}
  /\ now = 0
  /\ sync = [s \in {"s1"} |-> IdleSync]
  /\ upd = [j \in JobIds |-> IdleUpd]
  /\ scheduler = IdleScheduler

\* the clock advances
Tick ==
  /\ now < MaxTime
  /\ now' = now + 1
  /\ UNCHANGED <<jobs, queue, executions, notifications, logicRunning, sync, upd, scheduler>>

\* ------------------------------------------------ JobService (control surface)
\* a row created with retry_count already past max_retries
CreatedRow_RetryCountAboveMax(job_type, P, next_run, max_retries) ==
  [status |-> "active", job_type |-> job_type, cron |-> P, next_run |-> next_run,
   max_retries |-> IF max_retries = 0 THEN DEFAULT_MAX_RETRIES ELSE max_retries,
   last_executed_at |-> NullTime,
   retry_count |-> (IF max_retries = 0 THEN DEFAULT_MAX_RETRIES ELSE max_retries) + 1,
   timeout_seconds |-> DEFAULT_TIMEOUT]

\* Job.create: status 'active', max_retries || 3, retry_count DEFAULT 0 and
\* last_executed_at NULL from the table definition
CreatedRow(job_type, P, next_run, max_retries) ==
  [status |-> "active", job_type |-> job_type, cron |-> P, next_run |-> next_run,
   max_retries |-> IF max_retries = 0 THEN DEFAULT_MAX_RETRIES ELSE max_retries,
   last_executed_at |-> NullTime, retry_count |-> 0, timeout_seconds |-> DEFAULT_TIMEOUT]

\* JobService.createJob followed by Job.create: the row is inserted active,
\* then the dispatch is enqueued with delay = calculateDelay(next_run)
CreateJob(j, schedule_type, P, scheduled_time, max_retries) ==
  /\ jobs[j].status = "none"
  /\ schedule_type = "scheduled" => ~isInPast(scheduled_time, now)
  /\ schedule_type = "cron" => validateAndNormalize(P).valid
  /\ LET next_run == CASE schedule_type = "immediate" -> now
                       [] schedule_type = "scheduled" -> scheduled_time
                       [] OTHER -> getNextRun(P, now)
         job_type == IF schedule_type = "cron" THEN "recurring" ELSE "one-time"
         cron == IF schedule_type = "cron" THEN P ELSE 0
         q2 == addJobToQueue(queue, j, calculateDelay(next_run, now), FALSE, now)
     IN /\ jobs' = [jobs EXCEPT ![j] = CreatedRow(job_type, cron, next_run, max_retries)]
        /\ queue' = q2
  /\ UNCHANGED <<executions, notifications, logicRunning, now, sync, upd, scheduler>>

\* JobService.pauseJob: only an active recurring job; remove, then Job.pause
PauseJob(j) ==
  /\ jobs[j].status = "active"
  /\ jobs[j].job_type = "recurring"
  /\ queue' = removeJobFromQueue(queue, j)
  /\ jobs' = [jobs EXCEPT ![j].status = "paused"]
  /\ UNCHANGED <<executions, notifications, logicRunning, now, sync, upd, scheduler>>

\* JobService.resumeJob: only a paused job; Job.resume, then enqueue.  A
\* paused job without a cron expression (a one-time job paused by an update):
\* cron-parser 5 reads the missing expression as its default, every minute,
\* or getNextRun throws and the request changes nothing
ResumeJob(j) ==
  /\ jobs[j].status = "paused"
  /\ LET next_run == getNextRun(IF jobs[j].cron = 0 THEN 1 ELSE jobs[j].cron, now)
         q2 == addJobToQueue(queue, j, calculateDelay(next_run, now), FALSE, now)
     IN /\ jobs' = [jobs EXCEPT ![j].status = "active", ![j].next_run = next_run]
        /\ queue' = q2
  /\ UNCHANGED <<executions, notifications, logicRunning, now, sync, upd, scheduler>>

\* JobService.deleteJob: remove from the queue when active, then Job.delete
DeleteJob(j) ==
  /\ jobs[j].status \notin {"none", "deleted"}
  /\ queue' = IF jobs[j].status = "active" THEN removeJobFromQueue(queue, j) ELSE queue
  /\ jobs' = [jobs EXCEPT ![j].status = "deleted"]
  /\ UNCHANGED <<executions, notifications, logicRunning, now, sync, upd, scheduler>>

\* JobService.executeJobManually: any job that is not deleted; delay 0,
\* priority 1, manual flag; the BullMQ job id is still the job UUID
ExecuteJobManually(j) ==
  /\ jobs[j].status \notin {"none", "deleted"}
  /\ LET q2 == addJobToQueue(queue, j, 0, TRUE, now)
     IN /\ queue' = q2
  /\ UNCHANGED <<jobs, executions, notifications, logicRunning, now, sync, upd, scheduler>>

\* the patches of schemas.jobUpdate that matter here: a cron_expression
\* (0: none given) or a status, active or paused ("-": none given)
UpdatePatches ==
  {[cron_expression |-> P, status |-> "-"] : P \in CronPeriods \cup {InvalidCron}}
    \cup {[cron_expression |-> 0, status |-> st] : st \in {"active", "paused"}}

\* the status check left out: any row there is may be updated
updateJobAllowed_AnyStatus(job) == job.status # "none"

\* the first check of JobService.updateJob: the row exists and is neither
\* completed nor deleted (the second: a cron_expression given is valid)
updateJobAllowed(job) == job.status \notin {"none", "completed", "deleted"}

\* the queue part of updateJob: with a cron_expression, the dispatch of a job
\* read as active is removed and enqueued again with the new delay
updateJobQueue(q, job, j, updates, t) ==
  IF updates.cron_expression # 0 /\ job.status = "active"
  THEN addJobToQueue(removeJobFromQueue(q, j), j,
                     calculateDelay(getNextRun(updates.cron_expression, t), t), FALSE, t)
  ELSE q

\* Job.update(jobId, updates): cron_expression, next_run and status are
\* written as given, whatever the row holds by then; a cron_expression on a
\* one-time job breaks CHECK valid_job_type and nothing is written; a status
\* written a second time leaves the row as it is
JobUpdate(row, updates, next_run) ==
  IF updates.cron_expression # 0 /\ row.job_type # "recurring" THEN row
  ELSE [row EXCEPT
          !.cron = IF updates.cron_expression # 0 THEN updates.cron_expression ELSE @,
          !.next_run = IF updates.cron_expression # 0 THEN next_run ELSE @,
          !.status = IF updates.status # "-" THEN updates.status ELSE @]

\* the timeout_seconds a PATCH may carry (schemas.jobUpdate: 1..3600)
TimeoutPatches == {60, DEFAULT_TIMEOUT}

\* JobService.updateJob with {timeout_seconds}: no cron_expression, so the
\* queue is left alone and Job.update writes the column
UpdateJobTimeout(j, timeout_seconds) ==
  /\ upd[j].pc = "idle"
  /\ updateJobAllowed(jobs[j])
  /\ jobs' = [jobs EXCEPT ![j].timeout_seconds = timeout_seconds]
  /\ UNCHANGED <<queue, executions, notifications, logicRunning, now, sync, upd, scheduler>>

\* JobService.updateJob run without interruption
UpdateJob(j, updates) ==
  /\ upd[j].pc = "idle"
  /\ updateJobAllowed(jobs[j])
  /\ updates.cron_expression # 0 => isValidCronExpression(updates.cron_expression)
  /\ queue' = updateJobQueue(queue, jobs[j], j, updates, now)
  /\ jobs' = [jobs EXCEPT ![j] = JobUpdate(jobs[j], updates, getNextRun(
                IF updates.cron_expression # 0 THEN updates.cron_expression ELSE 1, now))]
  /\ UNCHANGED <<executions, notifications, logicRunning, now, sync, upd, scheduler>>

\* JobService.updateJob in two steps, other requests and the workers running
\* in between.  First the row is read and checked, next_run computed and the
\* queue updated
UpdateJobCheck(j, updates) ==
  /\ upd[j].pc = "idle"
  /\ updateJobAllowed(jobs[j])
  /\ updates.cron_expression # 0 => isValidCronExpression(updates.cron_expression)
  /\ queue' = updateJobQueue(queue, jobs[j], j, updates, now)
  /\ upd' = [upd EXCEPT ![j] =
       [pc |-> "checked", updates |-> updates,
        next_run |-> IF updates.cron_expression # 0
                     THEN getNextRun(updates.cron_expression, now) ELSE 0]]
  /\ UNCHANGED <<jobs, executions, notifications, logicRunning, now, sync, scheduler>>

\* ... then Job.update writes the row
UpdateJobWrite(j) ==
  /\ upd[j].pc = "checked"
  /\ jobs' = [jobs EXCEPT ![j] = JobUpdate(jobs[j], upd[j].updates, upd[j].next_run)]
  /\ upd' = [upd EXCEPT ![j] = IdleUpd]
  /\ UNCHANGED <<queue, executions, notifications, logicRunning, now, sync, scheduler>>

\* the requests of the control surface other than update
Requests ==
  \/ \E j \in DOMAIN jobs, st \in {"immediate", "scheduled", "cron"},
        P \in CronPeriods \cup {InvalidCron},
        at \in {now - 1, now, now + 1}, mr \in MaxRetriesInputs :
       /\ st # "cron" => P = 1
       /\ st # "scheduled" => at = now
       /\ CreateJob(j, st, P, at, mr)
  \/ \E j \in DOMAIN jobs, userId \in Users :
       findByIdAndUser(j, userId) # NoJob /\ PauseJob(j)
  \/ \E j \in DOMAIN jobs, userId \in Users :
       findByIdAndUser(j, userId) # NoJob /\ ResumeJob(j)
  \/ \E j \in DOMAIN jobs, userId \in Users :
       findByIdAndUser(j, userId) # NoJob /\ DeleteJob(j)
  \/ \E j \in DOMAIN jobs, userId \in Users :
       findByIdAndUser(j, userId) # NoJob /\ ExecuteJobManually(j)

Control ==
  \/ Requests
  \/ \E j \in DOMAIN jobs, userId \in Users, updates \in UpdatePatches :
       findByIdAndUser(j, userId) # NoJob /\ UpdateJob(j, updates)

\* ------------------------------------------------------- BullMQ worker side
Replace(q, old, new) == (q \ {old}) \cup {new}

Last(sq) == sq[Len(sq)]

\* the worker fetches a record whose time has come: a waiting record, or a
\* delayed one whose delay has elapsed, becomes active and processJob starts
\* (fireAt has served and is cleared, as the processor's fields are when the
\* processor ends)
Dequeue(i) ==
  /\ i \in queue
  /\ i.state \in {"waiting", "delayed"}
  /\ i.fireAt <= now
  /\ queue' = Replace(queue, i, [i EXCEPT !.state = "active", !.pc = "start", !.fireAt = 0])
  /\ UNCHANGED <<jobs, executions, notifications, logicRunning, now, sync, upd, scheduler>>

\* the processor returned: the record moves to the completed set and is kept
\* there (removeOnComplete: count 100, age 24 h)
moveToCompleted(i) ==
  [i EXCEPT !.state = "completed", !.pc = "-", !.snapStatus = "none", !.snapCron = 0]

\* job.opts.attempts: the queue's defaultJobOptions.attempts, for every job
Attempts == JOB_MAX_RETRIES

\* the processor threw: attemptsMade is incremented; below opts.attempts the
\* record is delayed by the exponential backoff delay * 2^(attemptsMade - 1),
\* otherwise it moves to the failed set and is kept there (removeOnFail)
moveToFailed(i, t) ==
  LET made == i.attemptsMade + 1
  IN IF made < Attempts
     THEN [i EXCEPT !.attemptsMade = made, !.state = "delayed", !.pc = "-",
                    !.fireAt = t + JOB_RETRY_DELAY * Pow2(made - 1),
                    !.snapStatus = "none", !.snapCron = 0]
     ELSE [i EXCEPT !.attemptsMade = made, !.state = "failed", !.pc = "-",
                    !.snapStatus = "none", !.snapCron = 0]

\* ExecutionService.handleJobFailure: one notification when the job row exists
handleJobFailure(i) ==
  IF jobs[i.jobId].status = "none" THEN <<>>
  ELSE << [type |-> "job_failure", jobId |-> i.jobId, attempts |-> FAILURE_ATTEMPTS] >>

\* JobWorker.handlePermanentFailure: handleJobFailure, then a notification of
\* its own
handlePermanentFailure(i) ==
  handleJobFailure(i) \o
  << [type |-> "job_failure", jobId |-> i.jobId, attempts |-> i.attemptsMade] >>

\* the listener without the isLastAttempt test
onFailed_EveryAttempt(i) == handlePermanentFailure(i)

\* worker.on('failed'): isLastAttempt = attemptsMade >= opts.attempts
onFailed(i) == IF i.attemptsMade >= Attempts THEN handlePermanentFailure(i) ELSE <<>>

\* the timeoutSeconds executeJob hands to runJobWithTimeout: `timeout` of the
\* jobData it destructures, i.e. of the envelope
ExecutionTimeout(i) == i.timeout

\* JobExecution.create({job_id, status: 'running', started_at}): no
\* retry_attempt is passed, the default 0 is stored
JobExecutionCreate(job_id, attemptsMade) ==
  [job_id |-> job_id, status |-> "running", retry_attempt |-> 0]

\* the execution rows of a job
RowsOf(j) == {e \in DOMAIN executions : executions[e].job_id = j}

\* the two early returns of executeJob: the row is missing (!job), or its
\* status is not active on a delivery that is not manual
isSkipped_NotFoundOnly(job, manual) == job.status = "none"

isSkipped(job, manual) == job.status = "none" \/ (job.status # "active" /\ ~manual)

\* ExecutionService.executeJob up to the start of the job logic: the job row
\* is re-read; a missing row, or a row that is not active on a delivery that
\* is not manual, is skipped and the record completes; otherwise the
\* execution row is inserted and the job logic starts
ExecStart(i) ==
  /\ i \in queue
  /\ i.state = "active"
  /\ i.pc = "start"
  /\ LET job == jobs[i.jobId]
         skipped == isSkipped(job, i.manual)
         eid == Len(executions) + 1
     IN IF skipped
        THEN /\ queue' = Replace(queue, i, moveToCompleted(i))
             /\ UNCHANGED <<executions, logicRunning>>
        ELSE /\ Cardinality(RowsOf(i.jobId)) < MaxExecs
             /\ executions' = Append(executions, JobExecutionCreate(i.jobId, i.attemptsMade))
             /\ logicRunning' = logicRunning \cup {eid}
             /\ queue' = Replace(queue, i,
                  [i EXCEPT !.pc = "logic", !.execs = Append(i.execs, eid),
                            !.snapStatus = job.status, !.snapCron = job.cron])
  /\ UNCHANGED <<jobs, notifications, now, sync, upd, scheduler>>

\* the catch block of executeJob and what BullMQ does with the rethrown
\* error: the execution row is written failed, the record is retried or
\* fails for good, and the 'failed' listener queues the notifications
Thrown(i) ==
  LET failed == moveToFailed(i, now)
  IN /\ executions' = [executions EXCEPT ![Last(i.execs)].status = "failed"]
     /\ queue' = Replace(queue, i, failed)
     /\ notifications' = notifications \o onFailed(failed)

\* the job logic returns before the deadline: the execution row is written
\* success (JobExecution.update)
LogicReturns(i) ==
  /\ i \in queue
  /\ i.state = "active"
  /\ i.pc = "logic"
  /\ Last(i.execs) \in logicRunning
  /\ logicRunning' = logicRunning \ {Last(i.execs)}
  /\ executions' = [executions EXCEPT ![Last(i.execs)].status = "success"]
  /\ queue' = Replace(queue, i, [i EXCEPT !.pc = "post"])
  /\ UNCHANGED <<jobs, notifications, now, sync, upd, scheduler>>

\* Job.updateLastExecuted: SET last_executed_at = CURRENT_TIMESTAMP
updateLastExecuted(row, t) == [row EXCEPT !.last_executed_at = t]

\* after Job.updateLastExecuted: ExecutionService.handleRecurringJobReschedule and
\* SchedulerService.rescheduleRecurringJob: next_run is computed from the
\* cron expression read at load, written, the row re-read and, when it is
\* still active, the job enqueued again under its UUID
Rescheduled(i) ==
  LET j == i.jobId
      nextRun == getNextRun(i.snapCron, now)
  IN /\ jobs' = [jobs EXCEPT ![j] = [updateLastExecuted(jobs[j], now) EXCEPT !.next_run = nextRun]]
     /\ queue' = Replace(
          IF jobs[j].status = "active"
          THEN addJobToQueue(queue, j, calculateDelay(nextRun, now), FALSE, now)
          ELSE queue,
          i, moveToCompleted(i))

\* executeJob after the success write: Job.updateLastExecuted, then the
\* reschedule of a recurring job that was active at load, or Job.complete
\* for a one-time job; storeFails names the store call that throws
PostSuccess(i, storeFails) ==
  /\ i \in queue
  /\ i.state = "active"
  /\ i.pc = "post"
  /\ LET j == i.jobId
         recurring == jobs[j].job_type = "recurring"
     IN /\ storeFails = "complete" => ~recurring
        /\ IF storeFails # "none"
           THEN /\ Thrown(i)
                /\ jobs' = IF storeFails = "updateLastExecuted" THEN jobs
                           ELSE [jobs EXCEPT ![j] = updateLastExecuted(jobs[j], now)]
           ELSE /\ IF recurring /\ i.snapStatus = "active"
                   THEN Rescheduled(i)
                   ELSE /\ jobs' = [jobs EXCEPT ![j] =
                                     IF recurring THEN updateLastExecuted(jobs[j], now)
                                     ELSE [updateLastExecuted(jobs[j], now)
                                             EXCEPT !.status = "completed"]]
                        /\ queue' = Replace(queue, i, moveToCompleted(i))
                /\ UNCHANGED <<executions, notifications>>
  /\ UNCHANGED <<logicRunning, now, sync, upd, scheduler>>

\* the steps of handleRecurringJobReschedule that can throw: getNextRun,
\* Job.update({next_run}) and rescheduleRecurringJob's add to the queue
RescheduleFailures == {"getNextRun", "update", "enqueue"}

\* handleRecurringJobReschedule without its try / catch: the error reaches
\* the catch block of executeJob
handleRecurringJobRescheduleFailed_Rethrown(i, failsAt) ==
  /\ Thrown(i)
  /\ jobs' = [jobs EXCEPT ![i.jobId] =
       IF failsAt = "enqueue"
       THEN [updateLastExecuted(jobs[i.jobId], now) EXCEPT !.next_run = getNextRun(i.snapCron, now)]
       ELSE updateLastExecuted(jobs[i.jobId], now)]

\* handleRecurringJobReschedule when one of its steps throws: the error is
\* logged and swallowed, what was written before it stays (next_run when the
\* add fails), executeJob returns success and the record completes
handleRecurringJobRescheduleFailed(i, failsAt) ==
  /\ jobs' = [jobs EXCEPT ![i.jobId] =
       IF failsAt = "enqueue"
       THEN [updateLastExecuted(jobs[i.jobId], now) EXCEPT !.next_run = getNextRun(i.snapCron, now)]
       ELSE updateLastExecuted(jobs[i.jobId], now)]
  /\ queue' = Replace(queue, i, moveToCompleted(i))
  /\ UNCHANGED <<executions, notifications>>

\* executeJob after the success write of a recurring job loaded active, with
\* a failure inside the reschedule
RescheduleFails(i, failsAt) ==
  /\ i \in queue
  /\ i.state = "active"
  /\ i.pc = "post"
  /\ jobs[i.jobId].job_type = "recurring"
  /\ i.snapStatus = "active"
  /\ handleRecurringJobRescheduleFailed(i, failsAt)
  /\ UNCHANGED <<logicRunning, now, sync, upd, scheduler>>

\* the job logic throws: runJobWithTimeout rejects with its error
LogicThrows(i) ==
  /\ i \in queue
  /\ i.state = "active"
  /\ i.pc = "logic"
  /\ Last(i.execs) \in logicRunning
  /\ logicRunning' = logicRunning \ {Last(i.execs)}
  /\ Thrown(i)
  /\ UNCHANGED <<jobs, now, sync, upd, scheduler>>

\* the deadline fires first: runJobWithTimeout rejects with the timeout
\* error; nothing stops executeJobLogic, which goes on in the background
TimeoutFires(i) ==
  /\ i \in queue
  /\ i.state = "active"
  /\ i.pc = "logic"
  /\ Last(i.execs) \in logicRunning
  /\ Thrown(i)
  /\ UNCHANGED <<jobs, logicRunning, now, sync, upd, scheduler>>

\* the job logic of an execution that timed out comes to its end
LateLogicEnds(e) ==
  /\ e \in logicRunning
  /\ ~\E i \in queue : i.pc = "logic" /\ Last(i.execs) = e
  /\ logicRunning' = logicRunning \ {e}
  /\ UNCHANGED <<jobs, queue, executions, notifications, now, sync, upd, scheduler>>

\* addExecutionLog without its try / catch: a failure of JobLog.create
\* reaches the caller
addExecutionLog_Rethrows(logFails) == ~logFails

\* ExecutionService.addExecutionLog: JobLog.create inside try / catch, the
\* error is logged and not rethrown; TRUE when control returns to the caller
addExecutionLog(logFails) == TRUE

\* executeJob from the load of the row to the 'Job execution started' log
\* entry; were the append to throw, the catch block would write the new
\* execution row failed and rethrow
ExecStartLogged(i, logFails) ==
  /\ i \in queue
  /\ i.state = "active"
  /\ i.pc = "start"
  /\ ~isSkipped(jobs[i.jobId], i.manual)
  /\ IF addExecutionLog(logFails)
     THEN ExecStart(i)
     ELSE LET eid == Len(executions) + 1
              failed == moveToFailed([i EXCEPT !.execs = Append(i.execs, eid)], now)
          IN /\ Cardinality(RowsOf(i.jobId)) < MaxExecs
             /\ executions' = Append(executions,
                  [JobExecutionCreate(i.jobId, i.attemptsMade) EXCEPT !.status = "failed"])
             /\ queue' = Replace(queue, i, failed)
             /\ notifications' = notifications \o onFailed(failed)
             /\ UNCHANGED <<jobs, logicRunning, now, sync, upd, scheduler>>

\* the job logic returns and the 'Job logic completed' and 'Job completed
\* successfully' entries are appended; were an append to throw, the error
\* would take the path of a throwing logic
LogicReturnsLogged(i, logFails) ==
  IF addExecutionLog(logFails) THEN LogicReturns(i) ELSE LogicThrows(i)

Worker ==
  \/ \E i \in queue : Dequeue(i)
  \/ \E i \in queue : ExecStart(i)
  \/ \E i \in queue : LogicReturns(i)
  \/ \E i \in queue, f \in {"none", "updateLastExecuted", "complete"} : PostSuccess(i, f)
  \/ \E i \in queue : LogicThrows(i)
  \/ \E i \in queue : TimeoutFires(i)
  \/ \E e \in logicRunning : LateLogicEnds(e)

\* ------------------------------------------- SchedulerService (Safety Sync)
Injective(f) == \A a, b \in DOMAIN f : f[a] = f[b] => a = b

\* the query without its status condition
Missed_AnyStatus == {j \in DOMAIN jobs : jobs[j].status # "none" /\ jobs[j].next_run <= now}

\* SELECT * FROM jobs WHERE status = 'active' AND next_run <= NOW()
Missed == {j \in DOMAIN jobs : jobs[j].status = "active" /\ jobs[j].next_run <= now}

\* ... ORDER BY next_run ASC LIMIT 1000: every order the database may return
findMissedJobs ==
  LET n == Min(Cardinality(Missed), SYNC_LIMIT)
  IN {f \in [1..n -> Missed] :
        /\ Injective(f)
        /\ \A a, b \in 1..n : a < b => jobs[f[a]].next_run <= jobs[f[b]].next_run
        /\ \A j \in Missed : (\E a \in 1..n : f[a] = j)
                                \/ \A a \in 1..n : jobs[f[a]].next_run <= jobs[j].next_run}

\* SchedulerService.runSafetySync up to the loop: the missed jobs are read;
\* with none the run ends
SyncStart(s) ==
  /\ sync[s].pc = "idle"
  /\ \E m \in findMissedJobs :
       sync' = [sync EXCEPT ![s] = [pc |-> IF m = <<>> THEN "idle" ELSE "adding",
                                    missed |-> m, i |-> 1]]
  /\ UNCHANGED <<jobs, queue, executions, notifications, logicRunning, now, upd, scheduler>>

\* one turn of the loop, SchedulerService.addMissedJobToQueue: the job is
\* enqueued under its UUID with delay 0; after the last one the run ends
SyncAdd(s) ==
  /\ sync[s].pc = "adding"
  /\ LET j == sync[s].missed[sync[s].i]
         last == sync[s].i = Len(sync[s].missed)
     IN /\ queue' = addJobToQueue(queue, j, 0, FALSE, now)
        /\ sync' = [sync EXCEPT ![s].i = @ + 1, ![s].pc = IF last THEN "idle" ELSE "adding"]
  /\ UNCHANGED <<jobs, executions, notifications, logicRunning, now, upd, scheduler>>

Scheduler ==
  \/ \E s \in DOMAIN sync : SyncStart(s)
  \/ \E s \in DOMAIN sync : SyncAdd(s)

\* ------------------------------------- SchedulerService.start and stop
\* the interval timers a process may hold in the model
MaxTimers == 2

TimerIds == 1..MaxTimers

\* start() up to its await: returns at once when isRunning, else sets
\* isRunning and begins the initial runSafetySync
SchedulerStart(s) ==
  /\ ~scheduler.isRunning
  /\ sync[s].pc = "idle"
  /\ s \notin scheduler.starting
  /\ \E m \in findMissedJobs :
       sync' = [sync EXCEPT ![s] = [pc |-> IF m = <<>> THEN "idle" ELSE "adding",
                                    missed |-> m, i |-> 1]]
  /\ scheduler' = [scheduler EXCEPT !.isRunning = TRUE, !.starting = @ \cup {s}]
  /\ UNCHANGED <<jobs, queue, executions, notifications, logicRunning, now, upd>>

\* start() after the initial run has ended: syncInterval = setInterval(...)
SchedulerStartResumes(s) ==
  /\ s \in scheduler.starting
  /\ sync[s].pc = "idle"
  /\ TimerIds \ scheduler.timers # {}
  /\ LET t == CHOOSE t \in TimerIds \ scheduler.timers :
                 \A o \in TimerIds \ scheduler.timers : t <= o
     IN scheduler' = [scheduler EXCEPT !.syncInterval = t, !.timers = @ \cup {t},
                                       !.starting = @ \ {s}]
  /\ UNCHANGED <<jobs, queue, executions, notifications, logicRunning, now, sync, upd>>

\* stop(): returns at once when not isRunning; else clears the interval
\* syncInterval holds, if it holds one, and sets isRunning false
SchedulerStop ==
  /\ scheduler.isRunning
  /\ scheduler' = [scheduler EXCEPT
       !.timers = IF scheduler.syncInterval # 0 THEN @ \ {scheduler.syncInterval} ELSE @,
       !.syncInterval = 0,
       !.isRunning = FALSE]
  /\ UNCHANGED <<jobs, queue, executions, notifications, logicRunning, now, sync, upd>>

\* an interval timer fires: its callback begins a runSafetySync
TimerFires(t, s) ==
  /\ t \in scheduler.timers
  /\ SyncStart(s)

\* ------------------------------------------------------------ read requests
\* JobService.getJobById: Job.findByIdAndUser (SELECT ... WHERE id AND
\* user_id, whatever the status), 'Job not found' when there is no row, then
\* Job.getWithStats
getJobById(j, userId) ==
  IF findByIdAndUser(j, userId) = NoJob
  THEN [error |-> "Job not found", job |-> NoJob]
  ELSE [error |-> "", job |-> jobs[j]]

\* the filters of schemas.jobListQuery ("-": none given)
ListStatusFilters == {"-", "pending", "active", "paused", "completed", "failed"}

ListTypeFilters == {"-", "one-time", "recurring"}

\* Job.list: WHERE user_id AND status != 'deleted' and the filters given,
\* ORDER BY the sort column, LIMIT limit OFFSET (page - 1) * limit; the ids of
\* the rows of the page
JobList(status, job_type, page, limit) ==
  LET rows == {j \in DOMAIN jobs :
                 /\ jobs[j].status \notin {"none", "deleted"}
                 /\ status # "-" => jobs[j].status = status
                 /\ job_type # "-" => jobs[j].job_type = job_type}
      ordered == CHOOSE f \in [1..Cardinality(rows) -> rows] : Injective(f)
      offset == (page - 1) * limit
  IN {ordered[k] : k \in {n \in 1..Cardinality(rows) : n > offset /\ n <= offset + limit}}

Next == Tick \/ Control \/ Worker \/ Scheduler

Spec == Init /\ [][Next]_vars

\* ---------------------------------------------------- Safety Sync on its own
\* The worker process after the dispatch state was lost: rows of jobs in the
\* store, an empty queue, two Safety Sync runs (two scheduler processes) and
\* the workers; no request arrives on the control surface.
SyncRows ==
  {r \in [status : {"active", "paused"}, job_type : {"one-time", "recurring"},
          cron : {0} \cup CronPeriods, next_run : 0..1, max_retries : {DEFAULT_MAX_RETRIES},
          last_executed_at : {NullTime}, retry_count : {0},
          timeout_seconds : {DEFAULT_TIMEOUT}] :
     /\ (r.job_type = "recurring") = (r.cron # 0)
     /\ r.status = "paused" => r.job_type = "recurring"}

SyncInit ==
  /\ jobs \in [JobIds -> SyncRows]
  /\ queue = {}
  /\ executions = <<>>
  /\ notifications = <<>>
  /\ logicRunning = {}
  /\ now = 0
  /\ sync = [s \in SyncIds |-> IdleSync]
  /\ upd = [j \in JobIds |-> IdleUpd]
  /\ scheduler = IdleScheduler

SyncNext == Tick \/ Worker \/ Scheduler

SyncSpec == SyncInit /\ [][SyncNext]_vars

\* the Safety Sync timer keeps firing, the loop of a run goes on, the workers
\* keep fetching and processing, the job logic ends one way or another
FairSyncSpec ==
  /\ SyncInit
  /\ [][SyncNext]_vars
  /\ WF_vars(Tick)
  /\ \A s \in SyncIds : WF_vars(SyncStart(s)) /\ WF_vars(SyncAdd(s))
  /\ WF_vars(\E i \in queue : Dequeue(i))
  /\ WF_vars(\E i \in queue : ExecStart(i))
  /\ WF_vars(\E i \in queue : LogicReturns(i) \/ LogicThrows(i) \/ TimeoutFires(i))
  /\ WF_vars(\E i \in queue : PostSuccess(i, "none"))
  /\ WF_vars(\E e \in logicRunning : LateLogicEnds(e))

\* ------------------------------------------- the selection of Safety Sync
\* Safety Sync over a store of three jobs in every status a row can have
\* (none is ever written 'pending' or 'failed'), due or not: one-time jobs
\* created active, then paused by a status patch, completed or deleted
SelectJobIds == {"j1", "j2", "j3"}

SelectRows ==
  {[CreatedRow("one-time", 0, n, 0) EXCEPT !.status = st] :
     st \in {"active", "paused", "completed", "deleted"}, n \in 0..2}

SelectInit ==
  /\ jobs \in [SelectJobIds -> SelectRows]
  /\ queue = {}
  /\ executions = <<>>
  /\ notifications = <<>>
  /\ logicRunning = {}
  /\ now = 0
  /\ sync = [s \in SyncIds |-> IdleSync]
  /\ upd = [j \in JobIds |-> IdleUpd]
  /\ scheduler = IdleScheduler

SelectNext == Tick \/ Scheduler

SelectSpec == SelectInit /\ [][SelectNext]_vars

\* ------------------------------------------ the scheduler service itself
\* the scheduler service started and stopped (SIGTERM / SIGINT may arrive
\* while startWorkers awaits start()), its timers and its runs
SchedulerNext ==
  \/ Tick
  \/ \E s \in DOMAIN sync : SchedulerStart(s)
  \/ \E s \in DOMAIN sync : SchedulerStartResumes(s)
  \/ SchedulerStop
  \/ \E t \in TimerIds, s \in DOMAIN sync : TimerFires(t, s)
  \/ \E s \in DOMAIN sync : SyncAdd(s)

SchedulerSpec == SyncInit /\ [][SchedulerNext]_vars

\* ------------------------------------------- failures of the log appends
\* Safety Sync and the workers as in SyncSpec, each append to the execution
\* log succeeding or failing
LogNext ==
  \/ SyncNext
  \/ \E i \in queue, logFails \in BOOLEAN : ExecStartLogged(i, logFails)
  \/ \E i \in queue, logFails \in BOOLEAN : LogicReturnsLogged(i, logFails)

LogSpec == SyncInit /\ [][LogNext]_vars

\* ------------------------------------------------ failures of the reschedule
\* Safety Sync and the workers as in SyncSpec, with reschedules that fail
RescheduleNext ==
  \/ SyncNext
  \/ \E i \in queue, failsAt \in RescheduleFailures : RescheduleFails(i, failsAt)

RescheduleSpec == SyncInit /\ [][RescheduleNext]_vars

\* ------------------------------------------------- updates of the timeout
\* The control surface and the workers, with updates of timeout_seconds
TimeoutNext ==
  \/ Tick
  \/ Requests
  \/ \E j \in DOMAIN jobs, userId \in Users, timeout_seconds \in TimeoutPatches :
       findByIdAndUser(j, userId) # NoJob /\ UpdateJobTimeout(j, timeout_seconds)
  \/ Worker

TimeoutSpec == Init /\ [][TimeoutNext]_vars

\* ------------------------------------------------ a worker process that dies
\* the execution row e is running and no dispatch being processed owns it
Orphaned(e) ==
  /\ executions[e].status = "running"
  /\ ~\E i \in queue : i.state = "active" /\ i.pc = "logic" /\ Last(i.execs) = e

\* The worker process exits while executeJob awaits the job logic
\* (process.exit in the uncaughtException / unhandledRejection handlers, or
\* a kill): the logic dies with the process, nothing writes the execution
\* row, and the queue's stalled check (lockDuration, stalledInterval) puts
\* the dispatch back in the wait list for the restarted worker.  One crash
\* is taken per behaviour.
WorkerCrash(i) ==
  /\ i \in queue
  /\ i.state = "active"
  /\ i.pc = "logic"
  /\ Last(i.execs) \in logicRunning
  /\ ~\E e \in DOMAIN executions : Orphaned(e)
  /\ logicRunning' = logicRunning \ {Last(i.execs)}
  /\ queue' = Replace(queue, i,
       [i EXCEPT !.state = "waiting", !.pc = "-", !.snapStatus = "none", !.snapCron = 0])
  /\ UNCHANGED <<jobs, executions, notifications, now, sync, upd, scheduler>>

\* Safety Sync and the workers as in SyncSpec, with a worker crash
CrashNext == SyncNext \/ \E i \in queue : WorkerCrash(i)

CrashSpec ==
  /\ SyncInit
  /\ [][CrashNext]_vars
  /\ WF_vars(Tick)
  /\ \A s \in SyncIds : WF_vars(SyncStart(s)) /\ WF_vars(SyncAdd(s))
  /\ WF_vars(\E i \in queue : Dequeue(i))
  /\ WF_vars(\E i \in queue : ExecStart(i))
  /\ WF_vars(\E i \in queue : LogicReturns(i) \/ LogicThrows(i) \/ TimeoutFires(i))
  /\ WF_vars(\E i \in queue : PostSuccess(i, "none"))
  /\ WF_vars(\E e \in logicRunning : LateLogicEnds(e))

\* -------------------------------------------- update requests in two steps
\* The control surface and the workers with updateJob taken as the two steps
\* it is made of: what a request or an execution does between the check of
\* an update and its write
UpdateNext ==
  \/ Tick
  \/ Requests
  \/ \E j \in DOMAIN jobs, userId \in Users, updates \in UpdatePatches :
       findByIdAndUser(j, userId) # NoJob /\ UpdateJobCheck(j, updates)
  \/ \E j \in DOMAIN jobs : UpdateJobWrite(j)
  \/ Worker

UpdateSpec == Init /\ [][UpdateNext]_vars

\* ================================================================= claims
Range(f) == {f[x] : x \in DOMAIN f}

\* the record i of the queue has just been moved to the failed set
BecomesFailed(i) ==
  /\ i.state = "active"
  /\ \E i2 \in queue' : i2.seq = i.seq /\ i2.jobId = i.jobId /\ i2.state = "failed"

\* C1: in every reachable state the dispatch queue holds at most one live
\* record (delayed, waiting or active) per job id, whichever callers enqueue
C1_AtMostOneLiveItem ==
  \A j \in DOMAIN jobs : Cardinality(LiveItemsOf(queue, j)) <= 1

\* a resumed (active again) job whose only record is the live manual dispatch
\* enqueued while it was paused: the enqueue of resume found it and added nothing
C1_Witness ==
  \E j \in DOMAIN jobs :
    /\ jobs[j].status = "active"
    /\ Cardinality(ItemsOf(queue, j)) = 1
    /\ \E i \in LiveItemsOf(queue, j) : i.manual

\* C2: at any moment at most one execution of a job is running its job logic
C2_OneLogicPerJob ==
  \A j \in DOMAIN jobs :
    Cardinality({e \in logicRunning : executions[e].job_id = j}) <= 1

\* C3: a job that is active in the store, due, and has no live record in the
\* queue is eventually enqueued and an execution of it eventually starts
C3_RecoveryLiveness ==
  \A j \in JobIds :
    (jobs[j].status = "active" /\ jobs[j].next_run <= now /\ LiveItemsOf(queue, j) = {})
      ~> (\E i \in queue : i.jobId = j /\ i.state = "active" /\ i.pc = "logic")

C5_RescheduleEnqueues ==
  [][\A i \in queue :
       (/\ i.state = "active"
        /\ i.pc = "post"
        /\ i.snapStatus = "active"
        /\ jobs[i.jobId].job_type = "recurring"
        /\ jobs[i.jobId].status = "active"
        /\ moveToCompleted(i) \in queue')
       => /\ jobs'[i.jobId].next_run = getNextRun(jobs[i.jobId].cron, now)
          /\ \E i2 \in LiveItemsOf(queue', i.jobId) : i2.fireAt = jobs'[i.jobId].next_run]_vars

\* C6: when the final attempt of a dispatch fails, the job's status becomes
\* failed
C6_ExhaustedMarksFailed ==
  [][\A i \in queue : BecomesFailed(i) => jobs'[i.jobId].status = "failed"]_vars

\* C7: a dispatch whose retries are exhausted puts exactly one job_failure
\* notification on the notification queue
C7_OneNotification ==
  [][\A i \in queue : BecomesFailed(i) => Len(notifications') = Len(notifications) + 1]_vars

\* C8: a dispatch that ends in terminal failure has produced exactly
\* max_retries + 1 execution rows, max_retries being the job's own
C8_BudgetIsMaxRetries ==
  \A i \in queue : i.state = "failed" => Len(i.execs) = jobs[i.jobId].max_retries + 1

\* C9: the k-th delivery of a dispatch writes an execution row with
\* retry_attempt = k - 1
C9_RetryAttemptRecorded ==
  \A i \in queue : \A k \in DOMAIN i.execs : executions[i.execs[k]].retry_attempt = k - 1

\* C10: an execution row that has a terminal status is never modified again
C10_TerminalImmutable ==
  [][\A e \in DOMAIN executions :
       executions[e].status # "running" => executions'[e] = executions[e]]_vars

\* C11: when the deadline of an execution fires before the job logic returns
\* (the row leaves running while its logic is still running), the row's
\* terminal status is timeout and one attempt of the dispatch is consumed
C11_TimeoutStatus ==
  [][\A i \in queue :
       (/\ i.state = "active"
        /\ i.pc = "logic"
        /\ executions[Last(i.execs)].status = "running"
        /\ executions'[Last(i.execs)].status # "running"
        /\ Last(i.execs) \in logicRunning')
       => /\ executions'[Last(i.execs)].status = "timeout"
          /\ \E i2 \in queue' : i2.seq = i.seq /\ i2.attemptsMade = i.attemptsMade + 1]_vars

\* C12: the delivery of a dispatch whose job is absent or soft-deleted at
\* load writes no execution row, runs no job logic, completes the dispatch
\* without a retry and queues no notification, manual or not
C12_GoneJobSkipped ==
  [][\A i \in queue :
       (/\ i.state = "active"
        /\ i.pc = "start"
        /\ jobs[i.jobId].status \in {"none", "deleted"}
        /\ i \notin queue')
       => /\ executions' = executions
          /\ logicRunning' = logicRunning
          /\ notifications' = notifications
          /\ moveToCompleted(i) \in queue']_vars

\* C13: the delivery of a dispatch that is not manual and whose job is not
\* active at load writes no execution row, completes the dispatch without a
\* retry and changes no field of the job
C13_InactiveSkipped ==
  [][\A i \in queue :
       (/\ i.state = "active"
        /\ i.pc = "start"
        /\ ~i.manual
        /\ jobs[i.jobId].status # "active"
        /\ i \notin queue')
       => /\ executions' = executions
          /\ logicRunning' = logicRunning
          /\ jobs' = jobs
          /\ moveToCompleted(i) \in queue']_vars

\* a dispatch that was not manual has been completed without an execution
\* row while its job is paused
C13_Witness ==
  \E i \in queue :
    /\ ~i.manual
    /\ i.state = "completed"
    /\ i.execs = <<>>
    /\ jobs[i.jobId].status = "paused"

C15_PausedOnlyRecurringFromActive ==
  [][\A j \in DOMAIN jobs :
       /\ jobs'[j].status = "paused" => jobs'[j].job_type = "recurring"
       /\ (jobs'[j].status = "paused" /\ jobs[j].status # "paused")
            => jobs[j].status = "active"]_vars

\* C16: the resume of a paused recurring job makes it active with next_run
\* the next cron firing after the instant of the resume, and leaves in the
\* queue a live dispatch of the job due at that next_run
C16_ResumeReschedules ==
  [][\A j \in DOMAIN jobs :
       (jobs[j].status = "paused" /\ jobs[j].cron # 0 /\ ResumeJob(j))
       => /\ jobs'[j].status = "active"
          /\ jobs'[j].next_run = getNextRun(jobs[j].cron, now)
          /\ \E i \in LiveItemsOf(queue', j) :
               i.fireAt = now + calculateDelay(jobs'[j].next_run, now)]_vars

\* C17: once the status of a job is completed or failed, the only other
\* status it ever takes is deleted
C17_TerminalStatusFinal ==
  [][\A j \in DOMAIN jobs :
       jobs[j].status \in {"completed", "failed"}
         => jobs'[j].status \in {jobs[j].status, "deleted"}]_vars

\* C18: once the status of a job is deleted it never changes again
C18_DeletedFinal ==
  [][\A j \in DOMAIN jobs :
       jobs[j].status = "deleted" => jobs'[j].status = "deleted"]_vars

\* C19: a deleted job is not found by getJobById and is on no page of the
\* job list, whatever the filters
C19_DeletedNotAccessible ==
  \A j \in DOMAIN jobs :
    jobs[j].status = "deleted"
      => /\ getJobById(j, user_id[j]).error = "Job not found"
         /\ \A st \in ListStatusFilters, jt \in ListTypeFilters, page \in 1..2, limit \in {1, 20} :
              j \notin JobList(st, jt, page, limit)

\* C20: no create inserts a job row, or enqueues a dispatch, for a scheduled
\* time earlier than now: such a request is rejected and changes nothing
C20_PastScheduleRejected ==
  [][\A j \in DOMAIN jobs :
       (jobs[j].status = "none" /\ jobs'[j].status # "none")
       => /\ jobs'[j].next_run >= now
          /\ \A i \in ItemsOf(queue', j) : i.fireAt >= now]_vars

\* time has passed and no job exists: the create of a job scheduled for the
\* instant before now is not possible, the same create for now is
C20_Witness ==
  /\ now > 0
  /\ \E j \in DOMAIN jobs :
       /\ jobs[j].status = "none"
       /\ queue = {}
       /\ ~ENABLED CreateJob(j, "scheduled", 1, now - 1, 0)
       /\ ENABLED CreateJob(j, "scheduled", 1, now, 0)

\* C21: a create or an update with an invalid cron expression changes
\* nothing: no step ever writes such an expression into a job row, and no
\* step inserts a row or a dispatch on its account
C21_InvalidCronRejected ==
  [][\A j \in DOMAIN jobs :
       /\ jobs'[j].cron \in {0} \cup CronPeriods
       /\ jobs'[j].cron # jobs[j].cron =>
            \A i \in LiveItemsOf(queue', j) \ queue : i.fireAt = jobs'[j].next_run]_vars

\* an active recurring job on which the update with the invalid expression is
\* not possible while the update with a valid one is
C21_Witness ==
  \E j \in DOMAIN jobs :
    /\ jobs[j].status = "active"
    /\ jobs[j].job_type = "recurring"
    /\ LiveItemsOf(queue, j) # {}
    /\ ~ENABLED UpdateJob(j, [cron_expression |-> InvalidCron, status |-> "-"])
    /\ ENABLED UpdateJob(j, [cron_expression |-> 2, status |-> "-"])

\* C22: an update of a job that is completed or deleted is rejected: no step
\* gives such a job another cron expression or makes it active or paused
\* (what Job.update would write), the update running without interruption
C22_NoUpdateOfFinishedJob ==
  [][\A j \in DOMAIN jobs :
       jobs[j].status \in {"completed", "deleted"}
       => /\ jobs'[j].cron = jobs[j].cron
          /\ jobs'[j].status \notin {"active", "paused"}]_vars

\* a completed job, and one that is deleted in other behaviours: no update
\* of it is possible, whatever the patch
C22_Witness ==
  \E j \in DOMAIN jobs :
    /\ jobs[j].status = "completed"
    /\ \E i \in ItemsOf(queue, j) : i.state = "completed"
    /\ \A u \in UpdatePatches : ~ENABLED UpdateJob(j, u)

\* C23: an update with a cron expression on a one-time job changes neither
\* the job row nor the queue
C23_OneTimeCronUpdateRejected ==
  [][\A j \in DOMAIN jobs, P \in CronPeriods :
       (jobs[j].job_type = "one-time" /\ UpdateJob(j, [cron_expression |-> P, status |-> "-"]))
       => (jobs' = jobs /\ queue' = queue)]_vars

\* a request of userId on job j that gets past the lookup and acts
OwnerScopedRequest(j, userId) ==
  /\ findByIdAndUser(j, userId) # NoJob
  /\ \/ PauseJob(j)
     \/ ResumeJob(j)
     \/ DeleteJob(j)
     \/ ExecuteJobManually(j)
     \/ \E updates \in UpdatePatches : UpdateJob(j, updates)

C25_NextRunIffSchedulable ==
  \A j \in DOMAIN jobs :
    jobs[j].status # "none"
    => (jobs[j].next_run # NullTime <=> jobs[j].status \in {"pending", "active", "paused"})

\* the status of the execution of job j started last ("none" without one)
LatestExecutionStatus(j) ==
  IF RowsOf(j) = {} THEN "none"
  ELSE executions[CHOOSE e \in RowsOf(j) : \A o \in RowsOf(j) : o <= e].status

\* C26: an active recurring job whose latest execution succeeded has its
\* next_run strictly later than its last_executed_at
C26_NextRunAfterLastExecution ==
  \A j \in DOMAIN jobs :
    (/\ jobs[j].job_type = "recurring"
     /\ jobs[j].status = "active"
     /\ LatestExecutionStatus(j) = "success")
    => jobs[j].next_run > jobs[j].last_executed_at

C28_StatusPatchKeepsQueueInStep ==
  [][\A j \in DOMAIN jobs :
       /\ UpdateJob(j, [cron_expression |-> 0, status |-> "paused"])
            => ~\E i \in ItemsOf(queue', j) : i.state \in {"delayed", "waiting"} /\ ~i.manual
       /\ UpdateJob(j, [cron_expression |-> 0, status |-> "active"])
            => \E i \in LiveItemsOf(queue', j) : ~i.manual]_vars

\* C29: notifications are queued only in a step that moves a dispatch to the
\* failed set (its final attempt failed), and they are job_failure
\* notifications of that dispatch's job; a step that completes a dispatch
\* (success or skip) or sends it to a retry queues none
C29_NotificationOnlyOnFinalFailure ==
  [][/\ notifications' # notifications
          => \E i \in queue :
               /\ BecomesFailed(i)
               /\ \A n \in Len(notifications) + 1 .. Len(notifications') :
                    notifications'[n].type = "job_failure" /\ notifications'[n].jobId = i.jobId
     /\ \A i \in queue :
          (i.state = "active" /\ \E c \in queue' \ queue :
               c.seq = i.seq /\ c.state \in {"completed", "delayed"})
          => notifications' = notifications]_vars

\* a dispatch whose third attempt failed, with its notifications queued
C29_Witness ==
  \E i \in queue :
    /\ i.state = "failed"
    /\ i.attemptsMade = Attempts
    /\ notifications # <<>>

\* job j has an execution that succeeded and whose dispatch has returned
Succeeded(j) ==
  \E e \in RowsOf(j) :
    /\ executions[e].status = "success"
    /\ ~\E i \in queue : i.pc = "post" /\ Last(i.execs) = e

\* C30: when the dispatch of a one-time job returns from a successful
\* execution the job is completed, and once a one-time job has succeeded
\* every execution started for it is a manual one
C30_OneTimeRunsOnce ==
  [][\A j \in DOMAIN jobs :
       jobs[j].job_type = "one-time"
       => /\ \A i \in queue :
               (/\ i.jobId = j /\ i.pc = "post"
                /\ \E c \in queue' : c.seq = i.seq /\ c.state = "completed")
               => jobs'[j].status = "completed"
          /\ (Succeeded(j) /\ RowsOf(j)' # RowsOf(j))
               => \E i \in queue' :
                    /\ i.jobId = j /\ i.pc = "logic" /\ i.manual
                    /\ Last(i.execs) \in RowsOf(j)' \ RowsOf(j)]_vars

\* C31: every execution row that is running is eventually closed (written
\* failed, or any other final status): none stays running forever
C31_RunningEventuallyClosed ==
  \A e \in 1..MaxExecs :
    (e \in DOMAIN executions /\ executions[e].status = "running")
      ~> (e \in DOMAIN executions /\ executions[e].status # "running")

\* C32: an execution that starts runs under the timeout_seconds the job's
\* row holds at delivery
C32_DeadlineFromRow ==
  [][\A i \in queue' :
       (/\ i.pc = "logic"
        /\ Len(executions') > Len(executions)
        /\ Last(i.execs) = Len(executions'))
       => ExecutionTimeout(i) = jobs[i.jobId].timeout_seconds]_vars

C34_NextRunOfCurrentCron ==
  \A j \in DOMAIN jobs :
    (jobs[j].status = "active" /\ jobs[j].job_type = "recurring")
    => jobs[j].next_run % jobs[j].cron = 0

\* C35: a Safety Sync run never selects a job whose dispatch has failed for
\* good (its record is in the failed set, the terminal failure handled)
C35_FailedJobNotSelected ==
  [][\A s \in DOMAIN sync :
       (sync[s].pc = "idle" /\ sync'[s] # sync[s])
       => \A a \in DOMAIN sync'[s].missed :
            ~\E i \in ItemsOf(queue, sync'[s].missed[a]) :
               i.state = "failed" /\ i.attemptsMade >= Attempts]_vars

\* C36: last_executed_at of a job changes only in a step in which one of
\* its executions ends in success, i.e. its dispatch returns and the
\* execution row it leaves behind reads success
C36_LastExecutedOnlyOnSuccess ==
  [][\A j \in DOMAIN jobs :
       (jobs[j].status # "none" /\ jobs'[j].last_executed_at # jobs[j].last_executed_at)
       => \E i \in queue :
            /\ i.jobId = j /\ i.state = "active" /\ i.pc = "post"
            /\ executions'[Last(i.execs)].status = "success"
            /\ \E c \in queue' : c.seq = i.seq /\ c.state = "completed"]_vars

\* C37: when the reschedule after a successful execution of a recurring job
\* fails, the execution row stays success, the dispatch completes, it is not
\* sent to a retry and no notification is queued
C37_RescheduleFailureSwallowed ==
  [][\A i \in queue, failsAt \in RescheduleFailures :
       RescheduleFails(i, failsAt)
       => /\ executions'[Last(i.execs)].status = "success"
          /\ \E c \in queue' : c.seq = i.seq /\ c.state = "completed"
          /\ ~\E c \in queue' : c.seq = i.seq /\ c.state \in {"delayed", "failed"}
          /\ notifications' = notifications]_vars

\* a recurring job after a reschedule that failed before next_run was
\* written: its execution reads success, its dispatch is completed, and
\* next_run was left behind last_executed_at
C37_Witness ==
  \E j \in DOMAIN jobs :
    /\ jobs[j].status = "active" /\ jobs[j].job_type = "recurring"
    /\ LatestExecutionStatus(j) = "success"
    /\ jobs[j].last_executed_at # NullTime
    /\ jobs[j].next_run <= jobs[j].last_executed_at
    /\ \E i \in ItemsOf(queue, j) : i.state = "completed"
    /\ notifications = <<>>

C39_TimerIffRunning ==
  /\ scheduler.starting = {} => (scheduler.timers # {} <=> scheduler.isRunning)
  /\ Cardinality(scheduler.timers) <= 1
====
